---------------------------- MODULE Spec2Model ----------------------------
(***************************************************************************)
(* Incremental PDF indexer (src/indexer.py, src/main.py).                  *)
(*                                                                         *)
(* An Indexer scans a folder for *.pdf files, decides per file whether it  *)
(* must be (re)indexed by comparing a fingerprint of the file with the     *)
(* content_hash stored on the file's first record, extracts the text page  *)
(* by page, splits every page into chunks, and finally hands the whole     *)
(* batch of chunks to the persistent store in one call.                    *)
(*                                                                         *)
(* Strings are sequences of one-character strings, so that concatenation   *)
(* and formatting are computed, not assumed.  The md5 digest is taken to   *)
(* be collision free: two digests are equal exactly when the byte strings  *)
(* digested are equal.                                                     *)
(***************************************************************************)
EXTENDS Integers, Sequences, FiniteSets, TLC

VARIABLES
    fs,          \* the folder: path -> file state, or NoFile
    store,       \* the persisted Chroma collection: id -> record
    collection,  \* Indexer.collection: None, or Bound (a handle on store)
    pc,          \* position of the current index_knowledge_base call
    todo,        \* files of the scan not yet visited, in scan order
    pages_data,  \* pages extracted from the file being processed
    chunks,      \* Indexer._process_documents' local list of chunks
    printed,     \* lines printed by the current run
    run,         \* number of index_knowledge_base calls started
    edits,       \* number of file modifications made so far
    hist,        \* history: what the scan last decided, what the run began with
    pure         \* state of the specifications of the pure functions

vars == <<fs, store, collection, pc, todo, pages_data, chunks, printed,
          run, edits, hist, pure>>

-----------------------------------------------------------------------------
(* Bounds of the model *)

MaxEdits == 1
MaxRuns == 3
\* the specifications of the pure functions
MaxNameLen == 2
MaxIdPages == 10
MaxIdChunks == 2
MaxBytesLen == 2
MaxHashMTime == 11
MaxParagraphs == 3

-----------------------------------------------------------------------------
(* Strings *)

DigitChars == <<"0", "1", "2", "3", "4", "5", "6", "7", "8", "9">>

RECURSIVE IntToStr(_)
\* str(n) of a natural number: its decimal digits
IntToStr(n) ==
    IF n < 10 THEN <<DigitChars[n + 1]>>
    ELSE IntToStr(n \div 10) \o <<DigitChars[(n % 10) + 1]>>

\* str(st_mtime): st_mtime is a float; the model's times are whole seconds
FloatToStr(t) == IntToStr(t) \o <<".", "0">>

-----------------------------------------------------------------------------
(* Values *)

None == "None"
Bound == "Collection"

\* glob(dir + '*.pdf'): every scanned path ends in the extension
PdfExt == <<".", "p", "d", "f">>
Paths == { <<"a">> \o PdfExt, <<"b">> \o PdfExt }

NoFile == [exists |-> FALSE, readable |-> FALSE, bytes |-> <<>>, mtime |-> 0]

\* The PDF contents of the model.  pypdf turns the bytes of a file into pages;
\* a page's text is given by the lengths of its paragraphs (the pieces between
\* blank lines), <<>> being a page without text.  Corrupt bytes make
\* pypdf.PdfReader raise.
PdfA == <<"A">>
PdfB == <<"B">>
PdfCorrupt == <<"X">>
PdfBytes == {PdfA, PdfB, PdfCorrupt}

IsCorrupt(bytes) == bytes = PdfCorrupt

PdfPages(bytes) ==
    CASE bytes = PdfA -> << <<300>>, <<600, 600>> >>
      [] bytes = PdfB -> << <<>>, <<400>> >>
      [] OTHER -> << >>

\* a file as it is after it was written at time t
Written(b, t) == [exists |-> TRUE, readable |-> TRUE, bytes |-> b, mtime |-> t]

-----------------------------------------------------------------------------
(* Indexer._calculate_hash *)

\* hashlib.md5(data).hexdigest(), collision free
Md5(data) == [md5 |-> data]

\* md5(content + str(st_mtime).encode()); defined for a readable file
CalculateHash(file) == Md5(file.bytes \o FloatToStr(file.mtime))

\* read_bytes() and stat() raise when the file is missing or unreadable
CalculateHashRaises(file) == ~file.exists \/ ~file.readable

-----------------------------------------------------------------------------
(* CharacterTextSplitter(chunk_size=1000, chunk_overlap=200) *)

ChunkSize == 1000
ChunkOverlap == 200
\* the splitter's default separator is a blank line, "\n\n"
SeparatorLen == 2

SepIf(cond) == IF cond THEN SeparatorLen ELSE 0

RECURSIVE PopSplits(_, _, _, _)
\* the inner while loop of _merge_splits: drop splits from the front of the
\* current window splits[s..i-1] until at most the overlap is kept and the
\* next split fits
PopSplits(splits, s, i, total) ==
    IF total > ChunkOverlap
       \/ (total + splits[i] + SepIf(i - s > 0) > ChunkSize /\ total > 0)
    THEN PopSplits(splits, s + 1, i, total - (splits[s] + SepIf(i - s > 1)))
    ELSE [s |-> s, total |-> total]

RECURSIVE MergeSplits(_, _, _, _, _)
\* _merge_splits over the paragraph lengths: docs are windows <<first, last>>
\* of paragraph numbers, the current window is splits[s..i-1]
MergeSplits(splits, i, s, total, docs) ==
    IF i > Len(splits)
    THEN IF i - s > 0 THEN Append(docs, <<s, i - 1>>) ELSE docs
    ELSE LET full == total + splits[i] + SepIf(i - s > 0) > ChunkSize
             emit == full /\ i - s > 0
             kept == IF emit THEN PopSplits(splits, s, i, total)
                     ELSE [s |-> s, total |-> total]
             docs2 == IF emit THEN Append(docs, <<s, i - 1>>) ELSE docs
         IN  MergeSplits(splits, i + 1, kept.s,
                         kept.total + splits[i] + SepIf(i - kept.s > 0), docs2)

RECURSIVE Offset(_, _)
\* position in the text of the first character of paragraph k
Offset(splits, k) ==
    IF k = 1 THEN 0 ELSE Offset(splits, k - 1) + splits[k - 1] + SeparatorLen

\* split_text: the chunks of a text as character ranges [lo, hi) of the text
SplitText(splits) ==
    LET docs == MergeSplits(splits, 1, 1, 0, <<>>)
    IN  [n \in 1..Len(docs) |->
            [lo |-> Offset(splits, docs[n][1]),
             hi |-> Offset(splits, docs[n][2]) + splits[docs[n][2]]]]

-----------------------------------------------------------------------------
(* Indexer._extract_text_from_pdf *)

\* open() or pypdf raised: the except branch is taken
ExtractRaises(file) == ~file.exists \/ ~file.readable \/ IsCorrupt(file.bytes)

RECURSIVE PagesFrom(_, _, _)
\* the loop over pdf_reader.pages: only the pages that hold text are kept
PagesFrom(file, pages, n) ==
    IF n > Len(pages) THEN <<>>
    ELSE (IF pages[n] /= <<>>
          THEN << [text |-> pages[n],
                   read_from |-> [bytes |-> file.bytes, mtime |-> file.mtime],
                   page_number |-> n,
                   total_pages |-> Len(pages)] >>
          ELSE <<>>) \o PagesFrom(file, pages, n + 1)

\* the list the method returns: [] after any exception
ExtractTextFromPdf(file) ==
    IF ExtractRaises(file) THEN <<>>
    ELSE PagesFrom(file, PdfPages(file.bytes), 1)

-----------------------------------------------------------------------------
(* Indexer._process_documents, lines 105-133: the chunks of one file *)

\* the chunks of one page, with the metadata of lines 111-131 (date_processed
\* and file_type, which nothing reads, are left out); a chunk's text is given
\* by the file state it was read from and its character range in the page
PageChunks(file_path, page_data, content_hash) ==
    LET page_chunks == SplitText(page_data.text)
    IN  [i \in 1..Len(page_chunks) |->
            [source |-> file_path,
             content_hash |-> content_hash,
             page_number |-> page_data.page_number,
             total_pages |-> page_data.total_pages,
             chunk_index |-> i - 1,
             total_chunks |-> Len(page_chunks),
             text |-> [read_from |-> page_data.read_from,
                       lo |-> page_chunks[i].lo,
                       hi |-> page_chunks[i].hi]]]

RECURSIVE FileChunks(_, _, _)
FileChunks(file_path, pages, content_hash) ==
    IF pages = <<>> THEN <<>>
    ELSE PageChunks(file_path, Head(pages), content_hash)
         \o FileChunks(file_path, Tail(pages), content_hash)

-----------------------------------------------------------------------------
(* Indexer.index_knowledge_base, line 149: the ids *)

Underscore == <<"_">>

IdWithoutPage(source, page_number, chunk_index) ==
    source \o Underscore \o IntToStr(chunk_index)

\* f"{source}_{page_number}_{chunk_index}"
Id(source, page_number, chunk_index) ==
    source \o Underscore \o IntToStr(page_number)
           \o Underscore \o IntToStr(chunk_index)

Ids(docs) ==
    [n \in 1..Len(docs) |->
        Id(docs[n].source, docs[n].page_number, docs[n].chunk_index)]

\* Chroma.from_documents(ids, documents, ...): insert or overwrite by id, the
\* later of two documents with one id winning
Upsert(st, ids, docs) ==
    LET new == {ids[n] : n \in 1..Len(ids)}
        last(id) == CHOOSE n \in 1..Len(ids) :
                        /\ ids[n] = id
                        /\ \A m \in 1..Len(ids) : ids[m] = id => m <= n
    IN  IF new = {} THEN st
        ELSE [id \in DOMAIN st \cup new |->
                 IF id \in new THEN docs[last(id)] ELSE st[id]]

-----------------------------------------------------------------------------
(* Indexer._needs_indexing *)

\* the records collection.get(where={"source": file_path}) selects
RecordsOf(st, file_path) == {id \in DOMAIN st : st[id].source = file_path}

\* the results of the lookup: the lookup raised, or the metadatas of the
\* selected records in the order the store returns them
QueryResults(st, file_path) ==
    LET ids == RecordsOf(st, file_path)
        rest(first) ==
            LET others == ids \ {first}
                order == CHOOSE sq \in [1..Cardinality(others) -> others] :
                            \A id \in others : \E n \in DOMAIN sq : sq[n] = id
            IN  [n \in 1..Cardinality(others) |-> st[order[n]]]
    IN  {[raised |-> TRUE, metadatas |-> <<>>]}
        \cup (IF ids = {} THEN {[raised |-> FALSE, metadatas |-> <<>>]}
              ELSE {[raised |-> FALSE, metadatas |-> <<st[first]>> \o rest(first)] :
                        first \in ids})

\* line 39 is outside the try: an unreadable file makes the method raise
NeedsIndexingRaises(file) == file.exists /\ CalculateHashRaises(file)

NeedsIndexingAnyRecord(file, results) ==
    IF ~file.exists THEN FALSE
    ELSE IF results.raised THEN TRUE
    ELSE IF results.metadatas /= <<>>
         THEN \A n \in DOMAIN results.metadatas :
                  results.metadatas[n].content_hash /= CalculateHash(file)
         ELSE TRUE

NeedsIndexingFailClosed(file, results) ==
    IF ~file.exists THEN FALSE
    ELSE IF results.raised THEN FALSE
    ELSE IF results.metadatas /= <<>>
         THEN results.metadatas[1].content_hash /= CalculateHash(file)
         ELSE TRUE

\* the value returned when the method does not raise
NeedsIndexing(file, results) ==
    IF ~file.exists THEN FALSE
    ELSE IF results.raised THEN TRUE
    ELSE IF results.metadatas /= <<>>
         THEN results.metadatas[1].content_hash /= CalculateHash(file)
         ELSE TRUE

-----------------------------------------------------------------------------
(* The run: Indexer.index_knowledge_base, one step per file access *)

Ended == {"done", "failed", "aborted", "cancelled"}

NoResults == [raised |-> FALSE, metadatas |-> <<>>]
NoDecision == [made |-> FALSE, file |-> NoFile, results |-> NoResults,
               value |-> FALSE]

Line(kind, path) == [kind |-> kind, path |-> path]
NoPath == <<>>

\* glob lists the files that exist; the model's two files are interchangeable,
\* so one order stands for both
PathOrder == << <<"a">> \o PdfExt, <<"b">> \o PdfExt >>
Glob(folder) == SelectSeq(PathOrder, LAMBDA f : folder[f].exists)

\* the pure-function specifications leave the run alone, and the run them
Idle == [spec |-> "run"]

Init ==
    /\ fs \in [Paths -> {Written(b, 0) : b \in PdfBytes}]
    /\ store = << >>
    /\ collection = None
    /\ pc = "idle"
    /\ todo = <<>>
    /\ pages_data = <<>>
    /\ chunks = <<>>
    /\ printed = {}
    /\ run = 0
    /\ edits = 0
    /\ hist = [decision |-> NoDecision, store0 |-> << >>,
               quiet |-> TRUE, clean |-> FALSE]
    /\ pure = Idle

\* main.py line 9, or any later Indexer(): a new object over the same
\* persist_directory
NewIndexer ==
    /\ pc \in Ended
    /\ collection = Bound
    /\ collection' = None
    /\ UNCHANGED <<fs, store, pc, todo, pages_data, chunks, printed, run, edits,
                   hist, pure>>

\* index_knowledge_base is called; _process_documents lists the folder
StartRun ==
    /\ pc \in Ended \cup {"idle"}
    /\ run < MaxRuns
    /\ todo' = Glob(fs)
    /\ pc' = "scan"
    /\ pages_data' = <<>>
    /\ chunks' = <<>>
    /\ printed' = {}
    /\ run' = run + 1
    /\ hist' = [decision |-> NoDecision, store0 |-> store, quiet |-> TRUE,
                clean |-> (pc = "done" /\ hist.quiet)]
    /\ UNCHANGED <<fs, store, collection, edits, pure>>

\* line 102: `not self.collection or self._needs_indexing(file_path)`
ScanDecide ==
    /\ pc = "scan"
    /\ todo /= <<>>
    /\ LET f == Head(todo)
           file == fs[f]
       IN  IF collection = None
           THEN /\ pc' = "extract"
                /\ hist' = [hist EXCEPT !.decision = NoDecision]
                /\ UNCHANGED <<todo, printed>>
           ELSE IF NeedsIndexingRaises(file)
           THEN /\ pc' = "aborted"
                /\ printed' = printed \cup {Line("indexing_error", NoPath)}
                /\ hist' = [hist EXCEPT !.decision = NoDecision]
                /\ UNCHANGED todo
           ELSE \E results \in (IF file.exists THEN QueryResults(store, f)
                                ELSE {NoResults}) :
                  LET value == NeedsIndexing(file, results)
                      said == IF results.raised
                              THEN {Line("verify_error", NoPath)} ELSE {}
                  IN  /\ hist' = [hist EXCEPT !.decision =
                                     [made |-> TRUE, file |-> file,
                                      results |-> results, value |-> value]]
                      /\ IF value
                         THEN /\ pc' = "extract"
                              /\ printed' = printed \cup said
                              /\ UNCHANGED todo
                         ELSE /\ pc' = "scan"
                              /\ printed' = printed \cup said
                                              \cup {Line("not_needed", f)}
                              /\ todo' = Tail(todo)
    /\ UNCHANGED <<fs, store, collection, pages_data, chunks, run, edits, pure>>

\* lines 103-104: the pages of the file, [] when it cannot be read
ScanExtract ==
    /\ pc = "extract"
    /\ LET f == Head(todo)
           pages == ExtractTextFromPdf(fs[f])
       IN  /\ printed' = IF ExtractRaises(fs[f])
                         THEN printed \cup {Line("pdf_error", f)} ELSE printed
           /\ IF pages /= <<>>
              THEN /\ pages_data' = pages
                   /\ pc' = "hash"
                   /\ UNCHANGED todo
              ELSE /\ pages_data' = <<>>
                   /\ pc' = "scan"
                   /\ todo' = Tail(todo)
    /\ hist' = [hist EXCEPT !.decision = NoDecision]
    /\ UNCHANGED <<fs, store, collection, chunks, run, edits, pure>>

\* a scan that writes every file's chunks to the store as soon as it has them
ScanHashWritingAtOnce ==
    /\ pc = "hash"
    /\ LET f == Head(todo)
       IN  IF CalculateHashRaises(fs[f])
           THEN /\ pc' = "aborted"
                /\ printed' = printed \cup {Line("indexing_error", NoPath)}
                /\ UNCHANGED <<todo, chunks, pages_data, store>>
           ELSE LET docs == FileChunks(f, pages_data, CalculateHash(fs[f]))
                IN  /\ chunks' = chunks \o docs
                    /\ store' = Upsert(store, Ids(docs), docs)
                    /\ pages_data' = <<>>
                    /\ todo' = Tail(todo)
                    /\ pc' = "scan"
                    /\ UNCHANGED printed
    /\ UNCHANGED <<fs, collection, run, edits, hist, pure>>

\* lines 105-133: the hash is read, the pages are split, the chunks are kept
ScanHash ==
    /\ pc = "hash"
    /\ LET f == Head(todo)
       IN  IF CalculateHashRaises(fs[f])
           THEN /\ pc' = "aborted"
                /\ printed' = printed \cup {Line("indexing_error", NoPath)}
                /\ UNCHANGED <<todo, chunks, pages_data>>
           ELSE /\ chunks' = chunks \o FileChunks(f, pages_data, CalculateHash(fs[f]))
                /\ pages_data' = <<>>
                /\ todo' = Tail(todo)
                /\ pc' = "scan"
                /\ UNCHANGED printed
    /\ UNCHANGED <<fs, store, collection, run, edits, hist, pure>>

\* lines 146-162 after the scan: one from_documents call for the whole batch
UpsertOk ==
    /\ pc = "scan"
    /\ todo = <<>>
    /\ store' = Upsert(store, Ids(chunks), chunks)
    /\ collection' = Bound
    /\ pc' = "done"
    /\ UNCHANGED <<fs, todo, pages_data, chunks, printed, run, edits, hist, pure>>

\* the embedding or the store call raises: nothing is written, line 162 is not
\* reached, the caller (main.py line 19) prints the error
UpsertFail ==
    /\ pc = "scan"
    /\ todo = <<>>
    /\ pc' = "failed"
    /\ printed' = printed \cup {Line("indexing_error", NoPath)}
    /\ UNCHANGED <<fs, store, collection, todo, pages_data, chunks, run, edits,
                   hist, pure>>

\* the run is cancelled during the scan (KeyboardInterrupt is no Exception:
\* none of the except clauses catches it)
Cancel ==
    /\ pc \in {"scan", "extract", "hash"}
    /\ pc' = "cancelled"
    /\ UNCHANGED <<fs, store, collection, todo, pages_data, chunks, printed, run,
                   edits, hist, pure>>

\* Another process changes the folder, at any time.  The history notes that
\* the folder is no longer as the run (and the run before it) found it.
Changed(f, st) ==
    /\ fs' = [fs EXCEPT ![f] = st]
    /\ edits' = edits + 1
    /\ hist' = [hist EXCEPT !.quiet = FALSE, !.clean = FALSE]

\* a file is written, with new bytes or the same: its modification time moves on
WriteFile ==
    /\ edits < MaxEdits
    /\ \E f \in Paths, b \in PdfBytes : Changed(f, Written(b, edits + 1))
    /\ UNCHANGED <<store, collection, pc, todo, pages_data, chunks, printed, run,
                   pure>>

\* a file is made unreadable, or readable again
ChmodFile ==
    /\ edits < MaxEdits
    /\ \E f \in Paths :
          /\ fs[f].exists
          /\ Changed(f, [fs[f] EXCEPT !.readable = ~fs[f].readable])
    /\ UNCHANGED <<store, collection, pc, todo, pages_data, chunks, printed, run,
                   pure>>

\* a file is removed
RemoveFile ==
    /\ edits < MaxEdits
    /\ \E f \in Paths :
          /\ fs[f].exists
          /\ Changed(f, NoFile)
    /\ UNCHANGED <<store, collection, pc, todo, pages_data, chunks, printed, run,
                   pure>>

Next ==
    \/ NewIndexer
    \/ StartRun
    \/ ScanDecide
    \/ ScanExtract
    \/ ScanHash
    \/ UpsertOk
    \/ UpsertFail
    \/ Cancel
    \/ WriteFile
    \/ ChmodFile
    \/ RemoveFile

Spec == Init /\ [][Next]_vars

-----------------------------------------------------------------------------
(* Properties of the run *)

\* the files of the batch that open() or pypdf cannot read
Bad(folder) == {f \in Paths : folder[f].exists /\ ExtractRaises(folder[f])}

\* the paths of the chunks handed to the store
Sources(docs) == {docs[n].source : n \in DOMAIN docs}

\* a printed line that names the path as failed
RecordedAsFailed(f) ==
    \E line \in printed :
        /\ line.path = f
        /\ line.kind \in {"pdf_error", "verify_error", "indexing_error"}

\* C1: a run that follows a completed run, no file having changed since that
\* run began and no store lookup having failed, writes nothing to the store.
C1_Idempotence ==
    (pc = "done" /\ hist.clean /\ Line("verify_error", NoPath) \notin printed)
        => chunks = <<>>

\* C4: a run over a folder in which exactly one file is corrupt or unreadable
\* is not aborted, names that file as failed, and leaves the other files with
\* records in the store.
C4_Isolation ==
    (pc \in {"done", "failed", "aborted"} /\ hist.quiet
        /\ Cardinality(Bad(fs)) = 1)
        => /\ pc /= "aborted"
           /\ \A f \in Bad(fs) : RecordedAsFailed(f)
           /\ pc = "done" =>
                \A g \in Paths \ Bad(fs) :
                    fs[g].exists => RecordsOf(store, g) /= {}

\* C5: when the store lookup for an existing file raises, _needs_indexing
\* returns true and the run is not aborted by the error: the scan goes on to
\* extract the file (or is cancelled from outside).
C5_FailOpen ==
    (hist.decision.made /\ hist.decision.file.exists
        /\ hist.decision.results.raised)
        => hist.decision.value = TRUE /\ pc \in {"extract", "cancelled"}

\* the lookup raised for a file whose stored hash is its current one
C5_Witness ==
    /\ hist.decision.made
    /\ hist.decision.results.raised
    /\ pc = "extract"
    /\ \E id \in RecordsOf(store, Head(todo)) :
          store[id].content_hash = CalculateHash(hist.decision.file)

\* C7: when the upsert fails, every file with chunks in the batch is named as
\* failed and the store holds nothing new.
C7_WriteFailureSurfaced ==
    pc = "failed"
        => /\ \A f \in Sources(chunks) : RecordedAsFailed(f)
           /\ store = hist.store0

\* C8: a run aborted during the scan, by an error or by cancellation, leaves
\* the store as it was when the run began: every document is untouched by the
\* run, none carries a new hash.
C8_AbortLeavesStore == pc \in {"aborted", "cancelled"} => store = hist.store0

\* the run is aborted with the chunks of a re-indexed document in hand
C8_Witness ==
    /\ pc = "aborted"
    /\ chunks /= <<>>
    /\ \E n \in DOMAIN chunks : RecordsOf(store, chunks[n].source) /= {}

\* the precondition of C9: the file exists and the lookup returned records
C9_Looked ==
    /\ hist.decision.made
    /\ hist.decision.file.exists
    /\ ~hist.decision.results.raised
    /\ hist.decision.results.metadatas /= <<>>

C10_HashOfTextRead ==
    \A id \in DOMAIN store :
        store[id].content_hash = CalculateHash(store[id].text.read_from)

-----------------------------------------------------------------------------
(* The pure functions, each under a specification of its own.  The run's    *)
(* variables stay as they are before the first run.                         *)

runVars == <<fs, store, collection, pc, todo, pages_data, chunks, printed,
             run, edits, hist>>

NoRun ==
    /\ fs = [f \in Paths |-> NoFile]
    /\ store = << >>
    /\ collection = None
    /\ pc = "idle"
    /\ todo = <<>>
    /\ pages_data = <<>>
    /\ chunks = <<>>
    /\ printed = {}
    /\ run = 0
    /\ edits = 0
    /\ hist = [decision |-> NoDecision, store0 |-> << >>,
               quiet |-> TRUE, clean |-> FALSE]

\* the strings over an alphabet of 1 to n characters
Strings(alphabet, n) == UNION {[1..k -> alphabet] : k \in 1..n}

RECURSIVE SetToSeq(_)
SetToSeq(S) ==
    IF S = {} THEN <<>>
    ELSE LET x == CHOOSE y \in S : TRUE IN <<x>> \o SetToSeq(S \ {x})

RECURSIVE Concat(_)
Concat(seqs) == IF seqs = <<>> THEN <<>> ELSE Head(seqs) \o Concat(Tail(seqs))

-----------------------------------------------------------------------------
(* Ids: line 149 over the chunks of one run *)

\* file names made of the separator and a digit, as glob returns them
IdPaths == {name \o PdfExt : name \in Strings({"_", "1"}, MaxNameLen)}

\* the metadata line 149 reads, for a file of `pages` pages of `n` chunks each
IdDocs(file_path, pages, n) ==
    Concat([p \in 1..pages |->
               [i \in 1..n |-> [source |-> file_path, page_number |-> p,
                                chunk_index |-> i - 1]]])

InitId ==
    /\ NoRun
    /\ \E folder \in SUBSET IdPaths, pages \in 1..MaxIdPages, n \in 1..MaxIdChunks :
          /\ Cardinality(folder) \in 1..2
          /\ pure = [spec |-> "id", folder |-> folder, pages |-> pages, n |-> n,
                     docs |-> <<>>, ids |-> <<>>]

\* _process_documents returns the chunks of every file of the folder
IdProcess ==
    /\ pure.docs = <<>>
    /\ pure' = [pure EXCEPT !.docs =
                   Concat([k \in 1..Cardinality(pure.folder) |->
                              IdDocs(SetToSeq(pure.folder)[k], pure.pages, pure.n)])]
    /\ UNCHANGED runVars

\* line 149
IdAssign ==
    /\ pure.docs /= <<>>
    /\ pure.ids = <<>>
    /\ pure' = [pure EXCEPT !.ids = Ids(pure.docs)]
    /\ UNCHANGED runVars

NextId == IdProcess \/ IdAssign

SpecId == InitId /\ [][NextId]_vars

\* C3: in a run, two chunks that differ in source path, page number or chunk
\* index have different ids.
C3_IdsInjective ==
    \A n, m \in DOMAIN pure.ids :
        pure.docs[n] /= pure.docs[m] => pure.ids[n] /= pure.ids[m]

\* two files, one name holding the separator and a digit, pages with two
\* digits, several chunks a page
C3_Witness ==
    /\ pure.ids /= <<>>
    /\ Cardinality(pure.folder) = 2
    /\ <<"1", "_">> \o PdfExt \in pure.folder
    /\ pure.pages >= 10
    /\ pure.n >= 2

-----------------------------------------------------------------------------
(* Fingerprints: _calculate_hash and _needs_indexing on one file *)

HashFiles ==
    {Written(b, t) : b \in Strings({"x", "1"}, MaxBytesLen), t \in 1..MaxHashMTime}

InitHash ==
    /\ NoRun
    /\ \E file \in HashFiles :
          pure = [spec |-> "hash", phase |-> "new", file |-> file,
                  indexed |-> NoFile, content_hash |-> Md5(<<>>), value |-> FALSE]

\* the file is indexed: its records carry its fingerprint
HashIndex ==
    /\ pure.phase = "new"
    /\ pure' = [pure EXCEPT !.phase = "indexed", !.indexed = pure.file,
                            !.content_hash = CalculateHash(pure.file)]
    /\ UNCHANGED runVars

\* bytes are modified, or the modification time is touched, or both
HashEdit ==
    /\ pure.phase = "indexed"
    /\ \E file \in HashFiles :
          /\ file /= pure.file
          /\ pure' = [pure EXCEPT !.phase = "edited", !.file = file]
    /\ UNCHANGED runVars

\* the next run asks _needs_indexing
HashCheck ==
    /\ pure.phase = "edited"
    /\ pure' = [pure EXCEPT !.phase = "checked",
                   !.value = NeedsIndexing(pure.file,
                                [raised |-> FALSE,
                                 metadatas |-> <<[content_hash |-> pure.content_hash]>>])]
    /\ UNCHANGED runVars

NextHash == HashIndex \/ HashEdit \/ HashCheck

SpecHash == InitHash /\ [][NextHash]_vars

\* C2: the fingerprint of the file equals the one it was indexed with exactly
\* when bytes and modification time are those it was indexed with, and after
\* a modification _needs_indexing returns true.
C2_ChangeSensitivity ==
    /\ pure.phase \in {"edited", "checked"} =>
          (CalculateHash(pure.file) = pure.content_hash
              <=> (pure.file.bytes = pure.indexed.bytes
                   /\ pure.file.mtime = pure.indexed.mtime))
    /\ pure.phase = "checked" => pure.value = TRUE

-----------------------------------------------------------------------------
(* Chunks: the splitter on one page *)

ParagraphLengths == {300, 600, 900, 2500}

Texts == UNION {[1..k -> ParagraphLengths] : k \in 1..MaxParagraphs}

\* len(text): the paragraphs and the blank lines between them
TextLen(splits) == Offset(splits, Len(splits)) + splits[Len(splits)]

InitChunk ==
    /\ NoRun
    /\ \E text \in Texts :
          pure = [spec |-> "chunk", text |-> text, split |-> FALSE,
                  page_chunks |-> <<>>]

\* lines 123-131 on a page of the text
SplitPage ==
    /\ ~pure.split
    /\ pure' = [pure EXCEPT !.split = TRUE,
                   !.page_chunks =
                       PageChunks(PathOrder[1],
                                  [text |-> pure.text, page_number |-> 1,
                                   total_pages |-> 1,
                                   read_from |-> [bytes |-> PdfA, mtime |-> 0]],
                                  CalculateHash(Written(PdfA, 0)))]
    /\ UNCHANGED runVars

NextChunk == SplitPage

SpecChunk == InitChunk /\ [][NextChunk]_vars

\* the windows of a text of n characters: they start every
\* ChunkSize - ChunkOverlap characters and are ChunkSize long, the last one
\* ending with the text
WindowCount(n) ==
    IF n <= ChunkSize THEN 1
    ELSE 1 + ((n - ChunkSize) + (ChunkSize - ChunkOverlap) - 1)
                 \div (ChunkSize - ChunkOverlap)

Windows(n) ==
    [k \in 1..WindowCount(n) |->
        LET lo == (k - 1) * (ChunkSize - ChunkOverlap)
        IN  [lo |-> lo, hi |-> IF lo + ChunkSize < n THEN lo + ChunkSize ELSE n]]

\* C6: the chunks of a page are the fixed windows of its text, numbered from
\* 0, each carrying their count; 2500 characters give [0,1000) [800,1800)
\* [1600,2500).
C6_FixedWindows ==
    pure.split =>
        /\ Len(pure.page_chunks) = WindowCount(TextLen(pure.text))
        /\ \A k \in DOMAIN pure.page_chunks :
              /\ pure.page_chunks[k].text.lo = Windows(TextLen(pure.text))[k].lo
              /\ pure.page_chunks[k].text.hi = Windows(TextLen(pure.text))[k].hi
              /\ pure.page_chunks[k].chunk_index = k - 1
              /\ pure.page_chunks[k].total_chunks = WindowCount(TextLen(pure.text))

====
